---- MODULE Spec2Model ----
(***************************************************************************)
(* Model of the zama-whisper private messaging system:                     *)
(*   - the PrivateMsg ledger program (PrivateMsg.sol),                     *)
(*   - the SDK modules AuthModule, KeyManager, EncryptionModule and        *)
(*     MessageModule that drive it.                                        *)
(*                                                                         *)
(* Cryptographic primitives are modelled symbolically: a hash or a key     *)
(* derivation is an injective code of its inputs, a ciphertext is a record *)
(* of the key, the IV and the plaintext it was made from, and the FHE      *)
(* access control list of a stored key handle is the set of addresses the  *)
(* ledger program allowed on it.                                           *)
(***************************************************************************)
EXTENDS Integers, Sequences, FiniteSets, TLC

(***************************************************************************)
(* Bounds of the model.                                                    *)
(***************************************************************************)
NumUsers == 3
NumPasswords == 2
NumKeys == 2
NumIVs == 1
MaxTx == 3
AddrLen == 2
NibbleLo == 9
NibbleHi == 11
NumCodecKeys == 3
NumCodecIVs == 3
NumSdkUsers == 2
NumSlots == 2
MaxRegisterOps == 2
MaxSendOps == 2
MaxGetOps == 1
NumRegisterPasswords == 1
MaxBatch == 2
CacheTTL == 2
MaxLoginOps == 2
MaxLogoutOps == 1
MaxSessionCalls == 4
MaxPasswordLen == 2
MaxRequests == 3
MaxClock == 2
MaxCbCalls == 2
NumViewDialogues == 2
MaxTimerIds == 3
MaxLoads == 3
NumBatchKeys == 2

Users == 1..NumUsers
Passwords == 1..NumPasswords
Keys == 1..NumKeys
IVs == 1..NumIVs
Texts == {"", "hi"}
CodecKeys == 1..NumCodecKeys
CodecIVs == 1..NumCodecIVs
CodecTexts == {"", "a", "hi", "hello"}
LedgerTexts == {"hi"}
SdkUsers == 1..NumSdkUsers
Slots == 1..NumSlots
\* the passwords the SDK accounts register with
RegisterPasswords == 1..NumRegisterPasswords

(***************************************************************************)
(* Addresses.  Account addresses are the numbers 1..NumUsers (compared as  *)
(* unsigned integers, as the ledger does); address(0) is ZeroAddress.      *)
(***************************************************************************)
ZeroAddress == 0
ZeroHandle == 0

\* AuthModule.generatePasswordWallet(...).address: keccak256(address+password)
\* taken as a private key, then its address.  An injective code of
\* (userAddress, password) that is never zero and never an account address.
generatePasswordWallet(userAddress, password) ==
    (NumUsers + 1) * password + userAddress

PasswordAddresses == {generatePasswordWallet(u, p) : u \in Users, p \in Passwords}

\* address(this) of the ledger program, the target of FHE.allowThis
ThisContract == (NumUsers + 1) * (NumPasswords + 1) + 1

(***************************************************************************)
(* PrivateMsg.getMsgID: order the pair by unsigned comparison and hash it  *)
(* with CODE_HASH.  The hash is the ordered pair itself (collision free).  *)
(***************************************************************************)
getMsgID(tokenA, tokenB) ==
    IF tokenA < tokenB THEN <<tokenA, tokenB>> ELSE <<tokenB, tokenA>>

DialogueIds == {getMsgID(a, b) : a \in Users, b \in Users}

(***************************************************************************)
(* EncryptionModule.  The blob is "0x" ++ IV ++ AES-CBC(key, IV, message):  *)
(* prefix tells whether the 0x marker is present, body is IV ++ ciphertext.*)
(***************************************************************************)
encryptMessage(message, key, iv) ==
    [prefix |-> TRUE, body |-> <<iv, [k |-> key, iv |-> iv, m |-> message]>>]

\* the blob without its 0x marker
StripPrefix(encryptedMessage) == [encryptedMessage EXCEPT !.prefix = FALSE]

Garbage == "<garbage>"
Malformed == "<malformed>"
\* what AES-CBC decryption under a wrong key or IV can yield: bytes that are
\* not UTF-8 or an empty result (Malformed), or some other decodable text.
WrongKeyOutcomes == {Malformed, Garbage}

decryptMessage(encryptedMessage, key, wrong) ==
    LET hexString == IF encryptedMessage.prefix
                     THEN StripPrefix(encryptedMessage).body
                     ELSE encryptedMessage.body
        iv == Head(hexString)
        ciphertext == Head(Tail(hexString))
        plaintext == IF ciphertext.k = key /\ ciphertext.iv = iv
                     THEN ciphertext.m ELSE wrong
    IN IF plaintext = Malformed \/ plaintext = ""
       THEN [threw |-> TRUE, text |-> ""]
       ELSE [threw |-> FALSE, text |-> plaintext]

(***************************************************************************)
(* State.                                                                  *)
(***************************************************************************)
VARIABLES
    userList,             \* PrivateMsg.userList: account -> password address
    dialogue,             \* PrivateMsg.dialogue: conversation -> MSG[]
    userMsg,              \* PrivateMsg.userMsg: account -> conversation[]
    dialoguePrivateKeys,  \* PrivateMsg.dialoguePrivateKeys: the key inside the stored handle
    allowed,              \* FHE ACL of the stored handle of each conversation
    blockNumber,          \* number of transactions mined so far
    lastTx,               \* receipt of the last mined transaction
    carried,              \* history: key handles carried by the accepted sendMsg transactions
    keyCache,             \* KeyManager.keyCache of each account's SDK instance (0: no entry)
    nextKey,              \* the next value KeyManager.generateDialogueKey draws
    ops,                  \* the SDK calls in progress, one per slot
    opCount,              \* number of SDK calls of each kind started so far
    firstSend,            \* history: how the first sendMessage of each conversation started
    cachedPassword,       \* PrivateMsgSDK.cachedPassword of each instance (0: null)
    timers,               \* the pending expiry timers of each instance's KeyManager
    now,                  \* the clock, in units of which cacheTTL is CacheTTL
    cachedAt,             \* history: when the present entry of keyCache was written (-1: no entry)
    loggedOut,            \* history: logout was called and no login was called since
    calc                  \* inputs and results of the pure functions under test

ledgerVars == <<userList, dialogue, userMsg, dialoguePrivateKeys, allowed,
                blockNumber, lastTx, carried>>

sessionVars == <<cachedPassword, timers, now, cachedAt, loggedOut>>

sdkVars == <<keyCache, nextKey, ops, opCount, firstSend,
             cachedPassword, timers, now, cachedAt, loggedOut>>

vars == <<userList, dialogue, userMsg, dialoguePrivateKeys, allowed,
          blockNumber, lastTx, carried, keyCache, nextKey, ops, opCount,
          firstSend, cachedPassword, timers, now, cachedAt, loggedOut, calc>>

Range(s) == {s[i] : i \in DOMAIN s}

NoTx == [fn |-> "none", sender |-> ZeroAddress, block |-> 0, status |-> "none"]

InitLedger ==
    /\ userList = [u \in Users |-> ZeroAddress]
    /\ dialogue = [d \in DialogueIds |-> <<>>]
    /\ userMsg = [u \in Users |-> <<>>]
    /\ dialoguePrivateKeys = [d \in DialogueIds |-> ZeroHandle]
    /\ allowed = [d \in DialogueIds |-> {}]
    /\ blockNumber = 0
    /\ lastTx = NoTx
    /\ carried = [d \in DialogueIds |-> <<>>]

NoCalc == [op |-> "none"]

NoTime == -1

Sentinel == "[Decryption failed]"

NoContent == encryptMessage("", ZeroHandle, 0)

IdleOp == [kind |-> "idle", pc |-> "idle", user |-> ZeroAddress, to |-> ZeroAddress,
           message |-> "", password |-> 0, dialogueAddress |-> <<0, 0>>,
           dialogueKey |-> ZeroHandle, msgList |-> <<>>,
           encryptedContent |-> NoContent, status |-> "", messages |-> <<>>,
           success |-> FALSE, isNewUser |-> FALSE, failure |-> "none",
           given |-> 0]

InitSdk ==
    /\ keyCache = [u \in SdkUsers |-> [d \in DialogueIds |-> 0]]
    /\ nextKey = 1
    /\ ops = [o \in Slots |-> IdleOp]
    /\ opCount = [k \in {"register", "send", "get", "login", "logout"} |-> 0]
    /\ firstSend = [d \in DialogueIds |-> "none"]
    /\ cachedPassword = [u \in SdkUsers |-> 0]
    /\ timers = [u \in SdkUsers |-> {}]
    /\ now = 0
    /\ cachedAt = [u \in SdkUsers |-> [d \in DialogueIds |-> NoTime]]
    /\ loggedOut = [u \in SdkUsers |-> FALSE]

InitLedgerOnly ==
    /\ InitLedger
    /\ InitSdk
    /\ calc = NoCalc

(***************************************************************************)
(* PrivateMsg.register                                                     *)
(***************************************************************************)
\* the handles the loop of register allows the new password address on
RegisterGrants_None(sender) == {}

RegisterGrants(sender) == Range(userMsg[sender])

AlreadyRegistered_Never(sender) == FALSE

AlreadyRegistered(sender) == userList[sender] # ZeroAddress

register(sender, passwordAddress) ==
    /\ blockNumber' = blockNumber + 1
    /\ IF AlreadyRegistered(sender)
       THEN /\ lastTx' = [fn |-> "register", sender |-> sender,
                          block |-> blockNumber + 1, status |-> "Already registered"]
            /\ UNCHANGED <<userList, allowed>>
       ELSE /\ userList' = [userList EXCEPT ![sender] = passwordAddress]
            /\ allowed' = [d \in DialogueIds |->
                              IF d \in RegisterGrants(sender)
                              THEN allowed[d] \cup {passwordAddress}
                              ELSE allowed[d]]
            /\ lastTx' = [fn |-> "register", sender |-> sender,
                          block |-> blockNumber + 1, status |-> "ok"]
    /\ UNCHANGED <<dialogue, userMsg, dialoguePrivateKeys, carried>>

(***************************************************************************)
(* PrivateMsg.sendMsg                                                      *)
(***************************************************************************)
IsFirstMsg_Always(dialogueAddress) == TRUE

IsFirstMsg(dialogueAddress) == Len(dialogue[dialogueAddress]) = 0

\* the grant without the registration test
GrantFor_Unchecked(user) == {userList[user]}

\* if (userList[user] != address(0)) FHE.allow(privateKey, userList[user])
GrantFor(user) ==
    IF userList[user] # ZeroAddress THEN {userList[user]} ELSE {}

\* FHE.allowThis plus FHE.allow for each registered participant
SendGrants_AllRegistered(sender, to) ==
    {ThisContract} \cup ({userList[u] : u \in Users} \ {ZeroAddress})

SendGrants(sender, to) ==
    {ThisContract} \cup GrantFor(sender) \cup GrantFor(to)

\* the two pushes at the end of sendMsg; both tests read the lists as they
\* were before either push
PushUserMsg(sender, to, dialogueAddress) ==
    LET hasSenderAddress == dialogueAddress \in Range(userMsg[sender])
        hasToAddress == dialogueAddress \in Range(userMsg[to])
        afterSender == IF hasSenderAddress THEN userMsg
                       ELSE [userMsg EXCEPT ![sender] = Append(@, dialogueAddress)]
    IN IF hasToAddress THEN afterSender
       ELSE [afterSender EXCEPT ![to] = Append(@, dialogueAddress)]

\* a record with sender and recipient exchanged
MSG_Swapped(from, to, msgContent, time) ==
    [from |-> to, to |-> from, msgContent |-> msgContent, time |-> time]

\* MSG({msgContent: msgContent, time: block.timestamp, from: msg.sender, to: to})
MSG(from, to, msgContent, time) ==
    [from |-> from, to |-> to, msgContent |-> msgContent, time |-> time]

\* a push that puts the record in front
Push_Front(list, record) == <<record>> \o list

\* dialogue[dialogueAddress].push(Msg(...)): the record goes to the end
Push(list, record) == Append(list, record)

\* a first message that leaves the key slot as it was
StoreKey_Skip(dialogueAddress, privateKey) == dialoguePrivateKeys

\* dialoguePrivateKeys[dialogueAddress] = privateKey
StoreKey(dialogueAddress, privateKey) ==
    [dialoguePrivateKeys EXCEPT ![dialogueAddress] = privateKey]

sendMsg(sender, to, privateKey, msgContent) ==
    LET dialogueAddress == getMsgID(sender, to)
        first == IsFirstMsg(dialogueAddress)
    IN /\ blockNumber' = blockNumber + 1
       /\ dialoguePrivateKeys' =
             IF first THEN StoreKey(dialogueAddress, privateKey)
             ELSE dialoguePrivateKeys
       /\ allowed' =
             IF first THEN [allowed EXCEPT ![dialogueAddress] = SendGrants(sender, to)]
             ELSE allowed
       /\ dialogue' = [dialogue EXCEPT ![dialogueAddress] =
                          Push(@, MSG(sender, to, msgContent, blockNumber + 1))]
       /\ userMsg' = PushUserMsg(sender, to, dialogueAddress)
       /\ carried' = [carried EXCEPT ![dialogueAddress] = Append(@, privateKey)]
       /\ lastTx' = [fn |-> "sendMsg", sender |-> sender,
                     block |-> blockNumber + 1, status |-> "ok"]
       /\ UNCHANGED userList

(***************************************************************************)
(* Direct calls of the ledger program, as the contract tests make them.    *)
(***************************************************************************)
TxRegister(u, p) ==
    /\ blockNumber < MaxTx
    /\ register(u, generatePasswordWallet(u, p))
    /\ UNCHANGED <<sdkVars, calc>>

TxSendMsg(u, to, k, t, iv) ==
    /\ blockNumber < MaxTx
    /\ sendMsg(u, to, k, encryptMessage(t, k, iv))
    /\ UNCHANGED <<sdkVars, calc>>

NextLedger ==
    \/ \E u \in Users, p \in Passwords : TxRegister(u, p)
    \/ \E u \in Users, to \in Users, k \in Keys, t \in LedgerTexts, iv \in IVs :
          TxSendMsg(u, to, k, t, iv)

SpecLedger == InitLedgerOnly /\ [][NextLedger]_vars

(***************************************************************************)
(* The SDK.  Every account of SdkUsers runs one SDK instance whose signer  *)
(* is the account.  A call runs in a slot; each await of the code that     *)
(* reads or writes the ledger or the key cache is one step.                *)
(***************************************************************************)
Participants(d) == {d[1], d[2]}

\* KeyManager.getCachedDialogueKey: keyCache.get(dialogueAddress) || null
getCachedDialogueKey(u, dialogueAddress) == keyCache[u][dialogueAddress]

\* KeyManager.cacheDialogueKey, line 164: keyCache.set(dialogueAddress, key)
cacheDialogueKey(u, dialogueAddress, key) ==
    [keyCache EXCEPT ![u][dialogueAddress] = key]

\* no expiry timer is set
ExpiryTimers_None(u, dialogueAddress) == timers

\* KeyManager.cacheDialogueKey, lines 167-169: setTimeout(delete, cacheTTL);
\* the timers set before stay pending
ExpiryTimers(u, dialogueAddress) ==
    [timers EXCEPT ![u] = @ \cup {[dialogueAddress |-> dialogueAddress,
                                   due |-> now + CacheTTL]}]

\* the whole of KeyManager.cacheDialogueKey
CacheKey(u, dialogueAddress, key) ==
    /\ keyCache' = cacheDialogueKey(u, dialogueAddress, key)
    /\ timers' = ExpiryTimers(u, dialogueAddress)
    /\ cachedAt' = [cachedAt EXCEPT ![u][dialogueAddress] = now]
    /\ UNCHANGED <<cachedPassword, now, loggedOut>>

\* a recovery that gives the key to every password wallet
decryptDialogueKey_NeverThrows(dialogueAddress, encryptedKeyHandle, passwordAddress) ==
    [threw |-> FALSE, key |-> encryptedKeyHandle]

\* KeyManager.decryptDialogueKey: userDecrypt gives the key inside the handle
\* when the signing password wallet is allowed on it, and throws otherwise
decryptDialogueKey(dialogueAddress, encryptedKeyHandle, passwordAddress) ==
    [threw |-> passwordAddress \notin allowed[dialogueAddress],
     key |-> encryptedKeyHandle]

\* a batch that leaves out the messages that fail to decrypt
DecryptAll_SkipFailed(msgList, key, wrongs) ==
    LET all == [i \in 1..Len(msgList) |->
                  LET r == decryptMessage(msgList[i].msgContent, key, wrongs[i])
                  IN [content |-> IF r.threw THEN Sentinel ELSE r.text,
                      encryptedContent |-> msgList[i].msgContent,
                      timestamp |-> msgList[i].time,
                      from |-> msgList[i].from,
                      to |-> msgList[i].to]]
        kept(m) == m.content # Sentinel
    IN SelectSeq(all, kept)

\* the loop of getMessages / decryptMessages: a message that fails to
\* decrypt is kept, with the sentinel as its content
DecryptAll(msgList, key, wrongs) ==
    [i \in 1..Len(msgList) |->
        LET r == decryptMessage(msgList[i].msgContent, key, wrongs[i])
        IN [content |-> IF r.threw THEN Sentinel ELSE r.text,
            encryptedContent |-> msgList[i].msgContent,
            timestamp |-> msgList[i].time,
            from |-> msgList[i].from,
            to |-> msgList[i].to]]

MaxOps(kind) ==
    IF kind = "register" THEN MaxRegisterOps
    ELSE IF kind = "send" THEN MaxSendOps
    ELSE IF kind = "get" THEN MaxGetOps
    ELSE IF kind = "login" THEN MaxLoginOps ELSE MaxLogoutOps

\* a call is started in the lowest free slot
CanStart(o, kind) ==
    /\ ops[o].kind = "idle"
    /\ opCount[kind] < MaxOps(kind)
    /\ \A o2 \in Slots : o2 < o => ops[o2].kind # "idle"

Finish(op, status) == [op EXCEPT !.pc = "done", !.status = status]

SendInFlight(d) ==
    \E o \in Slots : /\ ops[o].kind = "send" /\ ops[o].pc # "done"
                     /\ getMsgID(ops[o].user, ops[o].to) = d

\* every account counts as registered
isRegistered_Always(userAddress) == TRUE

\* AuthModule.isRegistered: getUser(userAddress) is not the zero address
isRegistered(userAddress) == userList[userAddress] # ZeroAddress

\* history of the first sendMessage of a conversation ("overlap" when a
\* sendMessage of the pair started while another one was in flight and the
\* conversation had no record yet): "clean" when both
\* accounts were registered when it started and no other sendMessage of the
\* pair started before its record was on the ledger
NoteSend(u, to) ==
    LET d == getMsgID(u, to)
    IN IF firstSend[d] = "none"
       THEN [firstSend EXCEPT ![d] =
                IF userList[u] # ZeroAddress /\ userList[to] # ZeroAddress
                THEN "clean" ELSE "dirty"]
       ELSE IF SendInFlight(d) /\ Len(dialogue[d]) = 0
            THEN [firstSend EXCEPT ![d] = "overlap"]
            ELSE firstSend

(***************************************************************************)
(* MessageModule.sendMessage                                               *)
(***************************************************************************)
\* the call and its first await, this.auth.isRegistered(this.signerAddress);
\* nothing before that await reads or writes shared state
\* given is the password the caller passed, password the one the call uses
SendStartGiven(o, u, to, message, password, given) ==
    /\ CanStart(o, "send")
    /\ LET op == [IdleOp EXCEPT !.kind = "send", !.user = u, !.to = to,
                                !.message = message, !.password = password,
                                !.given = given]
       IN ops' = [ops EXCEPT ![o] =
                    IF ~isRegistered(u)
                    THEN Finish(op, "NOT_REGISTERED")
                    ELSE [op EXCEPT !.pc = "getMsgID"]]
    /\ opCount' = [opCount EXCEPT !["send"] = @ + 1]
    /\ firstSend' = NoteSend(u, to)
    /\ UNCHANGED <<ledgerVars, keyCache, nextKey, sessionVars, calc>>

SendStart(o, u, to, message, password) ==
    SendStartGiven(o, u, to, message, password, password)

\* await this.contract.getMsgID(...), then the cache lookup
SendGetMsgID(o, iv) ==
    /\ ops[o].kind = "send" /\ ops[o].pc = "getMsgID"
    /\ LET dialogueAddress == getMsgID(ops[o].user, ops[o].to)
           cachedKey == getCachedDialogueKey(ops[o].user, dialogueAddress)
       IN ops' = [ops EXCEPT ![o] =
                    IF cachedKey # 0
                    THEN [@ EXCEPT !.pc = "pending",
                                   !.dialogueAddress = dialogueAddress,
                                   !.dialogueKey = cachedKey,
                                   !.encryptedContent =
                                       encryptMessage(ops[o].message, cachedKey, iv)]
                    ELSE [@ EXCEPT !.pc = "readKey",
                                   !.dialogueAddress = dialogueAddress]]
    /\ UNCHANGED <<ledgerVars, keyCache, nextKey, opCount, firstSend, sessionVars, calc>>

\* every conversation taken as one without a stored handle
HasStoredKey_Never(existingKey) == FALSE

\* existingKey !== '0x00...00'
HasStoredKey(existingKey) == existingKey # ZeroHandle

\* await this.contract.dialoguePrivateKeys(dialogueAddress); with no stored
\* handle a new key is generated and cached, the message is encrypted and the
\* transaction is submitted
SendReadKey(o, iv) ==
    /\ ops[o].kind = "send" /\ ops[o].pc = "readKey"
    /\ LET existingKey == dialoguePrivateKeys[ops[o].dialogueAddress]
       IN IF HasStoredKey(existingKey)
          THEN /\ ops' = [ops EXCEPT ![o] = [@ EXCEPT !.pc = "decryptKey",
                                                       !.dialogueKey = existingKey]]
               /\ UNCHANGED <<keyCache, nextKey, sessionVars>>
          ELSE /\ ops' = [ops EXCEPT ![o] =
                            [@ EXCEPT !.pc = "pending", !.dialogueKey = nextKey,
                                      !.encryptedContent =
                                          encryptMessage(ops[o].message, nextKey, iv)]]
               /\ CacheKey(ops[o].user, ops[o].dialogueAddress, nextKey)
               /\ nextKey' = nextKey + 1
    /\ UNCHANGED <<ledgerVars, opCount, firstSend, calc>>

\* await this.keyManager.decryptDialogueKey(existingKey, passwordWallet.wallet)
SendDecryptKey(o, iv) ==
    /\ ops[o].kind = "send" /\ ops[o].pc = "decryptKey"
    /\ LET r == decryptDialogueKey(ops[o].dialogueAddress, ops[o].dialogueKey,
                   generatePasswordWallet(ops[o].user, ops[o].password))
       IN IF r.threw
          THEN /\ ops' = [ops EXCEPT ![o] = Finish(@, "Send message failed")]
               /\ UNCHANGED <<keyCache, sessionVars>>
          ELSE /\ ops' = [ops EXCEPT ![o] =
                            [@ EXCEPT !.pc = "pending", !.dialogueKey = r.key,
                                      !.encryptedContent =
                                          encryptMessage(ops[o].message, r.key, iv)]]
               /\ CacheKey(ops[o].user, ops[o].dialogueAddress, r.key)
    /\ UNCHANGED <<ledgerVars, nextKey, opCount, firstSend, calc>>

\* the submitted sendMsg transaction is mined and tx.wait() returns
SendMined(o) ==
    /\ ops[o].kind = "send" /\ ops[o].pc = "pending"
    /\ sendMsg(ops[o].user, ops[o].to, ops[o].dialogueKey, ops[o].encryptedContent)
    /\ ops' = [ops EXCEPT ![o] = Finish(@, "ok")]
    /\ UNCHANGED <<keyCache, nextKey, opCount, firstSend, sessionVars, calc>>

(***************************************************************************)
(* MessageModule.getDialogueWith / getMessages                             *)
(***************************************************************************)
\* a view that hands the records out newest first
getMsgDetail_NewestFirst(dialogueAddresses) ==
    LET list == dialogue[dialogueAddresses]
    IN [privateKey |-> dialoguePrivateKeys[dialogueAddresses],
        msgList |-> [i \in 1..Len(list) |-> list[Len(list) + 1 - i]]]

\* PrivateMsg.getMsgDetail: the stored key handle and the stored list
getMsgDetail(dialogueAddresses) ==
    [privateKey |-> dialoguePrivateKeys[dialogueAddresses],
     msgList |-> dialogue[dialogueAddresses]]

\* a test that takes every handle for a stored key
NoStoredKey_Never(privateKey) == FALSE

\* !msgDetail.privateKey || msgDetail.privateKey === '0x00...00'
NoStoredKey(privateKey) == privateKey = ZeroHandle

\* the call and its first await, this.contract.getMsgDetail(dialogueAddress),
\* then the cache lookup; with a cached key the messages are decrypted at once
GetStartGiven(o, u, otherUser, password, given) ==
    /\ CanStart(o, "get")
    /\ LET d == getMsgID(u, otherUser)
           op == [IdleOp EXCEPT !.kind = "get", !.user = u, !.to = otherUser,
                                !.dialogueAddress = d, !.password = password,
                                !.given = given]
           msgDetail == getMsgDetail(d)
           privateKey == msgDetail.privateKey
           msgList == msgDetail.msgList
           dialogueKey == getCachedDialogueKey(u, d)
       IN IF NoStoredKey(privateKey)
          THEN ops' = [ops EXCEPT ![o] = Finish(op, "ok")]
          ELSE IF dialogueKey # 0
          THEN \E wrongs \in [1..Len(msgList) -> WrongKeyOutcomes] :
                  ops' = [ops EXCEPT ![o] =
                             Finish([op EXCEPT !.msgList = msgList,
                                               !.dialogueKey = dialogueKey,
                                               !.messages = DecryptAll(msgList, dialogueKey, wrongs)],
                                    "ok")]
          ELSE ops' = [ops EXCEPT ![o] = [op EXCEPT !.pc = "verifyPassword",
                                                     !.msgList = msgList,
                                                     !.dialogueKey = privateKey]]
    /\ opCount' = [opCount EXCEPT !["get"] = @ + 1]
    /\ UNCHANGED <<ledgerVars, keyCache, nextKey, firstSend, sessionVars, calc>>

GetStart(o, u, otherUser, password) == GetStartGiven(o, u, otherUser, password, password)

\* a check that accepts every password of a registered account
verifyPassword_AnyPassword(userAddress, password) ==
    IF userList[userAddress] = ZeroAddress THEN "NOT_REGISTERED" ELSE "valid"

\* AuthModule.verifyPassword: throws NOT_REGISTERED for an account without a
\* stored password address, and compares the derived address otherwise
verifyPassword(userAddress, password) ==
    IF userList[userAddress] = ZeroAddress THEN "NOT_REGISTERED"
    ELSE IF generatePasswordWallet(userAddress, password) = userList[userAddress]
         THEN "valid" ELSE "INVALID_PASSWORD"

\* await this.auth.verifyPassword(this.signerAddress, params.password)
GetVerifyPassword(o) ==
    /\ ops[o].kind = "get" /\ ops[o].pc = "verifyPassword"
    /\ LET v == verifyPassword(ops[o].user, ops[o].password)
       IN ops' = [ops EXCEPT ![o] =
                    IF v = "valid" THEN [@ EXCEPT !.pc = "decryptKey"]
                    ELSE Finish(@, v)]
    /\ UNCHANGED <<ledgerVars, keyCache, nextKey, opCount, firstSend, sessionVars, calc>>

\* await this.keyManager.decryptDialogueKey(msgDetail.privateKey, ...), the
\* key is cached and the messages are decrypted
GetDecryptKey(o) ==
    /\ ops[o].kind = "get" /\ ops[o].pc = "decryptKey"
    /\ LET r == decryptDialogueKey(ops[o].dialogueAddress, ops[o].dialogueKey,
                   generatePasswordWallet(ops[o].user, ops[o].password))
       IN IF r.threw
          THEN /\ ops' = [ops EXCEPT ![o] = Finish(@, "Failed to get messages")]
               /\ UNCHANGED <<keyCache, sessionVars>>
          ELSE /\ \E wrongs \in [1..Len(ops[o].msgList) -> WrongKeyOutcomes] :
                     ops' = [ops EXCEPT ![o] =
                                Finish([@ EXCEPT !.dialogueKey = r.key,
                                                 !.messages = DecryptAll(ops[o].msgList, r.key, wrongs)],
                                       "ok")]
               /\ CacheKey(ops[o].user, ops[o].dialogueAddress, r.key)
    /\ UNCHANGED <<ledgerVars, nextKey, opCount, firstSend, calc>>

(***************************************************************************)
(* AuthModule.register                                                     *)
(***************************************************************************)
\* the call and its first await, this.isRegistered(this.signerAddress); then
\* the transaction is sent
RegisterStart(o, u, password) ==
    /\ CanStart(o, "register")
    /\ LET op == [IdleOp EXCEPT !.kind = "register", !.user = u, !.password = password]
       IN ops' = [ops EXCEPT ![o] =
                    IF isRegistered(u)
                    THEN Finish(op, "Registration failed")
                    ELSE [op EXCEPT !.pc = "pending"]]
    /\ opCount' = [opCount EXCEPT !["register"] = @ + 1]
    /\ UNCHANGED <<ledgerVars, keyCache, nextKey, firstSend, sessionVars, calc>>

\* the register transaction is mined and tx.wait() returns or throws
RegisterMined(o) ==
    /\ ops[o].kind = "register" /\ ops[o].pc = "pending"
    /\ register(ops[o].user, generatePasswordWallet(ops[o].user, ops[o].password))
    /\ ops' = [ops EXCEPT ![o] =
                 Finish(@, IF lastTx'.status = "ok" THEN "ok" ELSE "Registration failed")]
    /\ UNCHANGED <<keyCache, nextKey, opCount, firstSend, sessionVars, calc>>

\* the caller takes the result of a finished call
Return(o) ==
    /\ ops[o].pc = "done"
    /\ ops' = [ops EXCEPT ![o] = IdleOp]
    /\ UNCHANGED <<ledgerVars, keyCache, nextKey, opCount, firstSend, sessionVars, calc>>

Init ==
    /\ InitLedger
    /\ InitSdk
    /\ calc = NoCalc

Next ==
    \/ \E o \in Slots, u \in SdkUsers, m \in Texts, p \in Passwords :
          \E to \in SdkUsers \ {u} : SendStart(o, u, to, m, p)
    \/ \E o \in Slots, iv \in IVs : SendGetMsgID(o, iv)
    \/ \E o \in Slots, iv \in IVs : SendReadKey(o, iv)
    \/ \E o \in Slots, iv \in IVs : SendDecryptKey(o, iv)
    \/ \E o \in Slots : SendMined(o)
    \/ \E o \in Slots, u \in SdkUsers, p \in Passwords :
          \E other \in SdkUsers \ {u} : GetStart(o, u, other, p)
    \/ \E o \in Slots : GetVerifyPassword(o)
    \/ \E o \in Slots : GetDecryptKey(o)
    \/ \E o \in Slots, u \in SdkUsers, p \in RegisterPasswords : RegisterStart(o, u, p)
    \/ \E o \in Slots : RegisterMined(o)
    \/ \E o \in Slots : Return(o)

\* the wallet rejects the transaction, or the node does: contract.sendMsg or
\* tx.wait() throws, and the catch block rethrows 'Send message failed: ...'
SendRejected(o) ==
    /\ ops[o].kind = "send" /\ ops[o].pc = "pending"
    /\ ops' = [ops EXCEPT ![o] = Finish(@, "Send message failed")]
    /\ UNCHANGED <<ledgerVars, keyCache, nextKey, opCount, firstSend, sessionVars, calc>>

\* two instances whose sendMsg transactions can fail
NextRejected ==
    \/ \E o \in Slots, u \in SdkUsers, m \in LedgerTexts, p \in RegisterPasswords :
          \E to \in SdkUsers \ {u} : SendStart(o, u, to, m, p)
    \/ \E o \in Slots, iv \in IVs : SendGetMsgID(o, iv)
    \/ \E o \in Slots, iv \in IVs : SendReadKey(o, iv)
    \/ \E o \in Slots, iv \in IVs : SendDecryptKey(o, iv)
    \/ \E o \in Slots : SendMined(o)
    \/ \E o \in Slots : SendRejected(o)
    \/ \E o \in Slots, u \in SdkUsers, p \in RegisterPasswords : RegisterStart(o, u, p)
    \/ \E o \in Slots : RegisterMined(o)
    \/ \E o \in Slots : Return(o)

SpecRejected == Init /\ [][NextRejected]_vars

\* The expiry timers, the clock and the session calls are not part of Next:
\* the calls of a behaviour of Spec all fall inside one cacheTTL.
Spec == Init /\ [][Next]_vars

(***************************************************************************)
(* PrivateMsgSDK.login                                                     *)
(***************************************************************************)
\* the cached password is written after a login that verified the password
LoginCaches_Always(isPasswordValid) == TRUE

\* PrivateMsgSDK.login, lines 198-207: an invalid password returns before
\* this.cachedPassword = password
LoginCaches(isPasswordValid) == isPasswordValid

\* the call and its awaits signer.getAddress() and auth.isRegistered(userAddress)
LoginStart(o, u, password) ==
    /\ CanStart(o, "login")
    /\ LET op == [IdleOp EXCEPT !.kind = "login", !.user = u, !.password = password]
       IN ops' = [ops EXCEPT ![o] =
                    IF ~isRegistered(u)
                    THEN [op EXCEPT !.pc = "isRegistered"]
                    ELSE [op EXCEPT !.pc = "verifyPassword"]]
    /\ opCount' = [opCount EXCEPT !["login"] = @ + 1]
    /\ loggedOut' = [loggedOut EXCEPT ![u] = FALSE]
    /\ UNCHANGED <<ledgerVars, keyCache, nextKey, firstSend,
                   cachedPassword, timers, now, cachedAt, calc>>

\* await this.auth.register(password): its own isRegistered check, then the
\* register transaction is sent
LoginRegister(o) ==
    /\ ops[o].kind = "login" /\ ops[o].pc = "isRegistered"
    /\ ops' = [ops EXCEPT ![o] =
                 IF isRegistered(ops[o].user)
                 THEN Finish(@, "Login failed")
                 ELSE [@ EXCEPT !.pc = "pending"]]
    /\ UNCHANGED <<ledgerVars, keyCache, nextKey, opCount, firstSend, sessionVars, calc>>

\* a wait that returns a receipt for a reverted transaction too
TxWaitThrows_Never(status) == FALSE

\* await tx.wait() in AuthModule.register: a reverted transaction throws
TxWaitThrows(status) == status # "ok"

\* the register transaction is mined; when tx.wait() returns the password is
\* cached and login returns {success: true, isNewUser: true}
LoginRegisterMined(o) ==
    /\ ops[o].kind = "login" /\ ops[o].pc = "pending"
    /\ register(ops[o].user, generatePasswordWallet(ops[o].user, ops[o].password))
    /\ IF ~TxWaitThrows(lastTx'.status)
       THEN /\ ops' = [ops EXCEPT ![o] =
                         Finish([@ EXCEPT !.success = TRUE, !.isNewUser = TRUE], "ok")]
            /\ cachedPassword' = [cachedPassword EXCEPT ![ops[o].user] = ops[o].password]
       ELSE /\ ops' = [ops EXCEPT ![o] = Finish(@, "Login failed")]
            /\ UNCHANGED cachedPassword
    /\ UNCHANGED <<keyCache, nextKey, opCount, firstSend, timers, now, cachedAt,
                   loggedOut, calc>>

\* await this.auth.verifyPassword(userAddress, password), then the result
LoginVerifyPassword(o) ==
    /\ ops[o].kind = "login" /\ ops[o].pc = "verifyPassword"
    /\ LET v == verifyPassword(ops[o].user, ops[o].password)
       IN /\ ops' = [ops EXCEPT ![o] =
                       IF v = "NOT_REGISTERED" THEN Finish(@, "Login failed")
                       ELSE Finish([@ EXCEPT !.success = (v = "valid")], "ok")]
          /\ cachedPassword' =
                IF v # "NOT_REGISTERED" /\ LoginCaches(v = "valid")
                THEN [cachedPassword EXCEPT ![ops[o].user] = ops[o].password]
                ELSE cachedPassword
    /\ UNCHANGED <<ledgerVars, keyCache, nextKey, opCount, firstSend, timers, now,
                   cachedAt, loggedOut, calc>>

(***************************************************************************)
(* PrivateMsgSDK.logout and KeyManager.clearCache                          *)
(***************************************************************************)
\* KeyManager.clearCache: keyCache.clear(); the pending timers stay
clearCache(u) == [keyCache EXCEPT ![u] = [d \in DialogueIds |-> 0]]

Logout(u) ==
    /\ opCount["logout"] < MaxOps("logout")
    /\ opCount' = [opCount EXCEPT !["logout"] = @ + 1]
    /\ cachedPassword' = [cachedPassword EXCEPT ![u] = 0]
    /\ keyCache' = clearCache(u)
    /\ cachedAt' = [cachedAt EXCEPT ![u] = [d \in DialogueIds |-> NoTime]]
    /\ loggedOut' = [loggedOut EXCEPT ![u] = TRUE]
    /\ UNCHANGED <<ledgerVars, nextKey, ops, firstSend, timers, now, calc>>

(***************************************************************************)
(* Time and the expiry timers of KeyManager.cacheDialogueKey               *)
(***************************************************************************)
MaxTime == CacheTTL + 1

\* the timers that can be pending: a conversation and the time it is due
Timers == [dialogueAddress : DialogueIds, due : 0..(MaxTime + CacheTTL)]

\* the callback of a timer that is due: keyCache.delete(dialogueAddress)
TimerFire(u, t) ==
    /\ t \in timers[u]
    /\ t.due <= now
    /\ timers' = [timers EXCEPT ![u] = @ \ {t}]
    /\ keyCache' = [keyCache EXCEPT ![u][t.dialogueAddress] = 0]
    /\ cachedAt' = [cachedAt EXCEPT ![u][t.dialogueAddress] = NoTime]
    /\ UNCHANGED <<ledgerVars, nextKey, ops, opCount, firstSend, cachedPassword,
                   now, loggedOut, calc>>

\* the clock advances; timers fire: a due timer runs before time moves on
Tick ==
    /\ now < MaxTime
    /\ \A u \in SdkUsers : \A t \in timers[u] : t.due > now
    /\ now' = now + 1
    /\ UNCHANGED <<ledgerVars, keyCache, nextKey, ops, opCount, firstSend,
                   cachedPassword, timers, cachedAt, loggedOut, calc>>

(***************************************************************************)
(* One SDK instance, that of the account of SessionUsers, while the        *)
(* accounts of Peers act on the ledger directly.  A behaviour makes at     *)
(* most MaxSessionCalls calls of the SDK.                                  *)
(***************************************************************************)
SessionUsers == {1}
Peers == {2}

CallsStarted ==
    opCount["register"] + opCount["send"] + opCount["get"]
        + opCount["login"] + opCount["logout"]

MayCall == CallsStarted < MaxSessionCalls

CallRegister(o, u, password) == MayCall /\ RegisterStart(o, u, password)

CallSend(o, u, to, message, password) == MayCall /\ SendStart(o, u, to, message, password)

CallGet(o, u, otherUser, password) == MayCall /\ GetStart(o, u, otherUser, password)

CallLogin(o, u, password) == MayCall /\ LoginStart(o, u, password)

CallLogout(u) == MayCall /\ Logout(u)

\* the instance over time: its key cache and the expiry timers
NextExpiry ==
    \/ \E o \in Slots, u \in SessionUsers, p \in RegisterPasswords :
          CallRegister(o, u, p)
    \/ \E o \in Slots : RegisterMined(o)
    \/ \E o \in Slots, u \in SessionUsers, to \in Peers, m \in LedgerTexts,
          p \in RegisterPasswords : CallSend(o, u, to, m, p)
    \/ \E o \in Slots, iv \in IVs : SendGetMsgID(o, iv)
    \/ \E o \in Slots, iv \in IVs : SendReadKey(o, iv)
    \/ \E o \in Slots, iv \in IVs : SendDecryptKey(o, iv)
    \/ \E o \in Slots : SendMined(o)
    \/ \E o \in Slots, u \in SessionUsers, other \in Peers, p \in RegisterPasswords :
          CallGet(o, u, other, p)
    \/ \E o \in Slots : GetVerifyPassword(o)
    \/ \E o \in Slots : GetDecryptKey(o)
    \/ \E o \in Slots : Return(o)
    \/ \E u \in SessionUsers, t \in Timers : TimerFire(u, t)
    \/ Tick

SpecExpiry == Init /\ [][NextExpiry]_vars

\* the instance through login and logout
NextSession ==
    \/ \E o \in Slots, u \in SessionUsers, p \in Passwords :
          CallLogin(o, u, p)
    \/ \E o \in Slots : LoginRegister(o)
    \/ \E o \in Slots : LoginRegisterMined(o)
    \/ \E o \in Slots : LoginVerifyPassword(o)
    \/ \E u \in SessionUsers : CallLogout(u)
    \/ \E o \in Slots, u \in SessionUsers, other \in Peers, p \in Passwords :
          CallGet(o, u, other, p)
    \/ \E o \in Slots : GetVerifyPassword(o)
    \/ \E o \in Slots : GetDecryptKey(o)
    \/ \E o \in Slots : Return(o)
    \/ \E u \in Peers, to \in SessionUsers, k \in Keys, t \in LedgerTexts, iv \in IVs :
          TxSendMsg(u, to, k, t, iv)

SpecSession == Init /\ [][NextSession]_vars

\* one instance through login, logout and register, in any interleaving
NextAccount ==
    \/ \E o \in Slots, u \in SessionUsers, p \in Passwords :
          CallLogin(o, u, p)
    \/ \E o \in Slots : LoginRegister(o)
    \/ \E o \in Slots : LoginRegisterMined(o)
    \/ \E o \in Slots : LoginVerifyPassword(o)
    \/ \E u \in SessionUsers : CallLogout(u)
    \/ \E o \in Slots, u \in SessionUsers, p \in Passwords :
          CallRegister(o, u, p)
    \/ \E o \in Slots : RegisterMined(o)
    \/ \E o \in Slots : Return(o)

SpecAccount == Init /\ [][NextAccount]_vars

(***************************************************************************)
(* Ledger reads that fail.  contract.getUser throws when the node cannot   *)
(* be reached; isRegistered and getPasswordAddress catch that.             *)
(***************************************************************************)
\* AuthModule.isRegistered with its catch block: false when getUser threw
isRegisteredCaught(userAddress, threw) ==
    IF threw THEN FALSE ELSE isRegistered(userAddress)

\* AuthModule.verifyPassword over getPasswordAddress with its catch block:
\* null when getUser threw, and null is taken as not registered
verifyPasswordCaught(userAddress, password, threw) ==
    IF threw THEN "NOT_REGISTERED" ELSE verifyPassword(userAddress, password)

\* sendMessage whose isRegistered read fails
SendStartOffline(o, u, to, message, password) ==
    /\ CanStart(o, "send")
    /\ LET op == [IdleOp EXCEPT !.kind = "send", !.user = u, !.to = to,
                                !.message = message, !.password = password,
                                !.failure = "network"]
       IN ops' = [ops EXCEPT ![o] =
                    IF ~isRegisteredCaught(u, TRUE)
                    THEN Finish(op, "NOT_REGISTERED")
                    ELSE [op EXCEPT !.pc = "getMsgID"]]
    /\ opCount' = [opCount EXCEPT !["send"] = @ + 1]
    /\ firstSend' = NoteSend(u, to)
    /\ UNCHANGED <<ledgerVars, keyCache, nextKey, sessionVars, calc>>

\* login whose isRegistered read fails
LoginStartOffline(o, u, password) ==
    /\ CanStart(o, "login")
    /\ LET op == [IdleOp EXCEPT !.kind = "login", !.user = u, !.password = password,
                                !.failure = "network"]
       IN ops' = [ops EXCEPT ![o] =
                    IF ~isRegisteredCaught(u, TRUE)
                    THEN [op EXCEPT !.pc = "isRegistered"]
                    ELSE [op EXCEPT !.pc = "verifyPassword"]]
    /\ opCount' = [opCount EXCEPT !["login"] = @ + 1]
    /\ loggedOut' = [loggedOut EXCEPT ![u] = FALSE]
    /\ UNCHANGED <<ledgerVars, keyCache, nextKey, firstSend,
                   cachedPassword, timers, now, cachedAt, calc>>

\* getMessages whose getPasswordAddress read, inside verifyPassword, fails
GetVerifyPasswordOffline(o) ==
    /\ ops[o].kind = "get" /\ ops[o].pc = "verifyPassword"
    /\ LET v == verifyPasswordCaught(ops[o].user, ops[o].password, TRUE)
       IN ops' = [ops EXCEPT ![o] =
                    IF v = "valid" THEN [@ EXCEPT !.pc = "decryptKey", !.failure = "network"]
                    ELSE Finish([@ EXCEPT !.failure = "network"], v)]
    /\ UNCHANGED <<ledgerVars, keyCache, nextKey, opCount, firstSend, sessionVars, calc>>

CallSendOffline(o, u, to, message, password) ==
    MayCall /\ SendStartOffline(o, u, to, message, password)

CallLoginOffline(o, u, password) == MayCall /\ LoginStartOffline(o, u, password)

\* one instance whose registration reads can fail, and a peer
NextOffline ==
    \/ \E o \in Slots, u \in SessionUsers, p \in RegisterPasswords : CallLogin(o, u, p)
    \/ \E o \in Slots, u \in SessionUsers, p \in RegisterPasswords :
          CallLoginOffline(o, u, p)
    \/ \E o \in Slots : LoginRegister(o)
    \/ \E o \in Slots : LoginRegisterMined(o)
    \/ \E o \in Slots : LoginVerifyPassword(o)
    \/ \E o \in Slots, u \in SessionUsers, to \in Peers, m \in LedgerTexts,
          p \in RegisterPasswords : CallSend(o, u, to, m, p)
    \/ \E o \in Slots, u \in SessionUsers, to \in Peers, m \in LedgerTexts,
          p \in RegisterPasswords : CallSendOffline(o, u, to, m, p)
    \/ \E o \in Slots, iv \in IVs : SendGetMsgID(o, iv)
    \/ \E o \in Slots, iv \in IVs : SendReadKey(o, iv)
    \/ \E o \in Slots, iv \in IVs : SendDecryptKey(o, iv)
    \/ \E o \in Slots : SendMined(o)
    \/ \E o \in Slots, u \in SessionUsers, other \in Peers, p \in RegisterPasswords :
          CallGet(o, u, other, p)
    \/ \E o \in Slots : GetVerifyPassword(o)
    \/ \E o \in Slots : GetVerifyPasswordOffline(o)
    \/ \E o \in Slots : GetDecryptKey(o)
    \/ \E o \in Slots : Return(o)
    \/ \E u \in Peers, to \in SessionUsers, k \in Keys, t \in LedgerTexts, iv \in IVs :
          TxSendMsg(u, to, k, t, iv)

SpecOffline == Init /\ [][NextOffline]_vars

(***************************************************************************)
(* The facade methods PrivateMsgSDK.sendMessage / getMessages /            *)
(* getDialogueWith: the password parameter is optional; 0 stands for a     *)
(* password that is not passed.                                            *)
(***************************************************************************)
GivenPasswords == {0} \cup Passwords

\* the cached password taken before the one that was passed
EffectivePassword_CachedFirst(u, given) ==
    IF cachedPassword[u] # 0 THEN cachedPassword[u] ELSE given

\* const password = params.password || this.cachedPassword
EffectivePassword(u, given) ==
    IF given # 0 THEN given ELSE cachedPassword[u]

\* if (!password) throw new Error('No password provided. ...')
NoPassword(o, kind, u, otherUser) ==
    /\ CanStart(o, kind)
    /\ ops' = [ops EXCEPT ![o] =
                 Finish([IdleOp EXCEPT !.kind = kind, !.user = u, !.to = otherUser],
                        "No password provided")]
    /\ opCount' = [opCount EXCEPT ![kind] = @ + 1]
    /\ UNCHANGED <<ledgerVars, keyCache, nextKey, firstSend, sessionVars, calc>>

FacadeSend(o, u, to, message, given) ==
    /\ MayCall
    /\ LET password == EffectivePassword(u, given)
       IN IF password = 0 THEN NoPassword(o, "send", u, to)
          ELSE SendStartGiven(o, u, to, message, password, given)

FacadeGet(o, u, otherUser, given) ==
    /\ MayCall
    /\ LET password == EffectivePassword(u, given)
       IN IF password = 0 THEN NoPassword(o, "get", u, otherUser)
          ELSE GetStartGiven(o, u, otherUser, password, given)

\* one instance used through the facade
NextFacade ==
    \/ \E o \in Slots, u \in SessionUsers, p \in RegisterPasswords : CallLogin(o, u, p)
    \/ \E o \in Slots : LoginRegister(o)
    \/ \E o \in Slots : LoginRegisterMined(o)
    \/ \E o \in Slots : LoginVerifyPassword(o)
    \/ \E u \in SessionUsers : CallLogout(u)
    \/ \E o \in Slots, u \in SessionUsers, to \in Peers, m \in LedgerTexts,
          given \in GivenPasswords : FacadeSend(o, u, to, m, given)
    \/ \E o \in Slots, iv \in IVs : SendGetMsgID(o, iv)
    \/ \E o \in Slots, iv \in IVs : SendReadKey(o, iv)
    \/ \E o \in Slots, iv \in IVs : SendDecryptKey(o, iv)
    \/ \E o \in Slots : SendMined(o)
    \/ \E o \in Slots, u \in SessionUsers, other \in Peers, given \in GivenPasswords :
          FacadeGet(o, u, other, given)
    \/ \E o \in Slots : GetVerifyPassword(o)
    \/ \E o \in Slots : GetDecryptKey(o)
    \/ \E o \in Slots : Return(o)

SpecFacade == Init /\ [][NextFacade]_vars

(***************************************************************************)
(* The key cache on its own: KeyManager.cacheDialogueKey and clearCache    *)
(* called in any order on one instance, with the timers and the clock.     *)
(***************************************************************************)
CacheDialogues(u) == {getMsgID(u, other) : other \in Users \ {u}}

\* keyManager.cacheDialogueKey(dialogueAddress, key)
CacheCall(u, dialogueAddress, key) ==
    /\ CacheKey(u, dialogueAddress, key)
    /\ UNCHANGED <<ledgerVars, nextKey, ops, opCount, firstSend, calc>>

\* keyManager.clearCache()
ClearCall(u) ==
    /\ \E d \in DialogueIds : keyCache[u][d] # 0
    /\ keyCache' = clearCache(u)
    /\ cachedAt' = [cachedAt EXCEPT ![u] = [d \in DialogueIds |-> NoTime]]
    /\ UNCHANGED <<ledgerVars, nextKey, ops, opCount, firstSend, cachedPassword,
                   timers, now, loggedOut, calc>>

NextCache ==
    \/ \E u \in SessionUsers, k \in Keys :
          \E d \in CacheDialogues(u) : CacheCall(u, d, k)
    \/ \E u \in SessionUsers : ClearCall(u)
    \/ \E u \in SessionUsers, t \in Timers : TimerFire(u, t)
    \/ Tick

SpecCache == Init /\ [][NextCache]_vars

(***************************************************************************)
(* KeyManager.decryptDialogueKey on its own: the authorization object each *)
(* call builds for userDecrypt.  The clock counts seconds; a keypair is    *)
(* named by the number of generateKeypair calls before it.                 *)
(***************************************************************************)
DurationDays == 10

\* the signature made with the account's wallet
AuthSigner_Wallet(userAddress, passwordAddress) == userAddress

\* passwordWallet.signTypedData(...) and passwordWallet.address
AuthSigner(userAddress, passwordAddress) == passwordAddress

InitAuth ==
    /\ InitLedger
    /\ InitSdk
    /\ calc = [op |-> "auth", clock |-> 0, keypairs |-> 0, requests |-> <<>>]

\* a key recovery of account u for the stored handle of conversation d: the
\* caller derives the password wallet, decryptDialogueKey builds the request
\* (keypair, handleContractPairs, the EIP712 fields, the signature) and
\* hands it to userDecrypt
AuthDecrypt(u, password, d, encryptedKeyHandle) ==
    /\ calc.op = "auth"
    /\ Len(calc.requests) < MaxRequests
    /\ calc' = [calc EXCEPT
          !.keypairs = @ + 1,
          !.requests = Append(@,
              [handle |-> encryptedKeyHandle,
               handleContract |-> ThisContract,
               keypair |-> calc.keypairs,
               contractAddresses |-> <<ThisContract>>,
               startTimeStamp |-> calc.clock,
               durationDays |-> DurationDays,
               signer |-> AuthSigner(u, generatePasswordWallet(u, password))])]
    /\ UNCHANGED <<ledgerVars, sdkVars>>

\* a second passes
AuthTick ==
    /\ calc.op = "auth"
    /\ calc.clock < MaxClock
    /\ calc' = [calc EXCEPT !.clock = @ + 1]
    /\ UNCHANGED <<ledgerVars, sdkVars>>

NextAuth ==
    \/ \E u \in SessionUsers, p \in Passwords, k \in Keys :
          \E d \in CacheDialogues(u) : AuthDecrypt(u, p, d, k)
    \/ AuthTick

SpecAuth == InitAuth /\ [][NextAuth]_vars

(***************************************************************************)
(* The callbacks of MessageModule.sendMessage.  One instance of account 1  *)
(* with all three callbacks set; calc holds the position of its call and   *)
(* the callbacks fired by it, in order; tx and orphan are <<to, content>>  *)
(* of a submitted transaction or <<>>.  A callback is the caller's         *)
(* function: it returns or throws.                                         *)
(***************************************************************************)
InitCallbacks ==
    /\ InitLedger
    /\ InitSdk
    /\ calc = [op |-> "callbacks", initialized |-> FALSE, pc |-> "idle",
               calls |-> 0, events |-> <<>>, tx |-> <<>>, orphan |-> <<>>]

\* the catch block: this.callbacks.onError?.(...) and the rethrow
Caught(c) == [c EXCEPT !.pc = "thrown", !.events = Append(@, "onError")]

\* MessageModule.initialize(contract, signerAddress)
CbInitialize ==
    /\ calc.op = "callbacks" /\ ~calc.initialized
    /\ calc' = [calc EXCEPT !.initialized = TRUE]
    /\ UNCHANGED <<ledgerVars, sdkVars>>

\* sendMessage is called: the guard before the try block throws
\* SDK_NOT_INITIALIZED, otherwise the call goes on to its awaits
CbCall ==
    /\ calc.op = "callbacks"
    /\ calc.pc \in {"idle", "returned", "thrown"}
    /\ calc.calls < MaxCbCalls
    /\ calc' = [calc EXCEPT !.calls = @ + 1, !.events = <<>>, !.tx = <<>>,
                            !.pc = IF calc.initialized THEN "prepare" ELSE "thrown"]
    /\ UNCHANGED <<ledgerVars, sdkVars>>

\* from isRegistered to contract.sendMsg: NOT_REGISTERED, a rejected
\* transaction, or the transaction is submitted
CbSubmit(u, to, m, k, iv, rejected) ==
    /\ calc.op = "callbacks" /\ calc.pc = "prepare"
    /\ calc' = IF ~isRegistered(u) \/ rejected
               THEN Caught(calc)
               ELSE [calc EXCEPT !.pc = "submitted",
                                 !.tx = <<to, encryptMessage(m, k, iv)>>]
    /\ UNCHANGED <<ledgerVars, sdkVars>>

\* this.callbacks.onTransactionSubmitted?.(tx.hash)
CbOnSubmitted(throws) ==
    /\ calc.op = "callbacks" /\ calc.pc = "submitted"
    /\ throws => calc.orphan = <<>>
    /\ LET fired == [calc EXCEPT !.events = Append(@, "onTransactionSubmitted")]
       IN calc' = IF throws
                  THEN Caught([fired EXCEPT !.orphan = calc.tx, !.tx = <<>>])
                  ELSE [fired EXCEPT !.pc = "pending"]
    /\ UNCHANGED <<ledgerVars, sdkVars>>

\* await tx.wait(): the transaction is mined, or the wait throws
CbWait(u, k, failed) ==
    /\ calc.op = "callbacks" /\ calc.pc = "pending"
    /\ IF failed
       THEN /\ calc' = Caught(calc)
            /\ UNCHANGED ledgerVars
       ELSE /\ blockNumber < MaxTx
            /\ sendMsg(u, calc.tx[1], k, calc.tx[2])
            /\ calc' = [calc EXCEPT !.pc = "confirmed"]
    /\ UNCHANGED sdkVars

\* this.callbacks.onTransactionConfirmed?.(receipt), then the return
CbOnConfirmed(throws) ==
    /\ calc.op = "callbacks" /\ calc.pc = "confirmed"
    /\ LET fired == [calc EXCEPT !.events = Append(@, "onTransactionConfirmed")]
       IN calc' = IF throws THEN Caught(fired) ELSE [fired EXCEPT !.pc = "returned"]
    /\ UNCHANGED <<ledgerVars, sdkVars>>

\* a transaction whose call has already failed is mined
CbOrphanMined(u, k) ==
    /\ calc.op = "callbacks" /\ calc.orphan # <<>>
    /\ blockNumber < MaxTx
    /\ sendMsg(u, calc.orphan[1], k, calc.orphan[2])
    /\ calc' = [calc EXCEPT !.orphan = <<>>]
    /\ UNCHANGED sdkVars

NextCallbacks ==
    \/ CbInitialize
    \/ \E u \in SessionUsers, p \in RegisterPasswords : TxRegister(u, p)
    \/ CbCall
    \/ \E u \in SessionUsers, to \in Peers, m \in LedgerTexts, k \in Keys, iv \in IVs,
          rejected \in BOOLEAN : CbSubmit(u, to, m, k, iv, rejected)
    \/ \E throws \in BOOLEAN : CbOnSubmitted(throws)
    \/ \E u \in SessionUsers, k \in Keys, failed \in BOOLEAN : CbWait(u, k, failed)
    \/ \E throws \in BOOLEAN : CbOnConfirmed(throws)
    \/ \E u \in SessionUsers, k \in Keys : CbOrphanMined(u, k)

SpecCallbacks == InitCallbacks /\ [][NextCallbacks]_vars

(***************************************************************************)
(* The chat view (ChatBox) and its polling timer.  calc holds the          *)
(* component: its life cycle, the store's currentDialogue (0 for null),    *)
(* the variable pollingTimer (0 for null), the intervals that are set and  *)
(* not cleared, and the watch callbacks waiting in                         *)
(* await refreshMessages(true): the dialogues they load, in call order.     *)
(***************************************************************************)
InitPolling ==
    /\ InitLedger
    /\ InitSdk
    /\ calc = [op |-> "polling", mounted |-> "setup", currentDialogue |-> 0,
               pollingTimer |-> 0, active |-> {}, hidden |-> FALSE,
               loads |-> <<>>]

\* stopPolling: clearInterval(pollingTimer); pollingTimer = null
stopPolling(c) ==
    IF c.pollingTimer # 0
    THEN [c EXCEPT !.active = @ \ {c.pollingTimer}, !.pollingTimer = 0]
    ELSE c

\* startPolling: stopPolling(), then setInterval when a dialogue is selected
startPolling(c) ==
    LET stopped == stopPolling(c)
        timer == CHOOSE t \in 1..MaxTimerIds : t \notin stopped.active
    IN IF stopped.currentDialogue # 0
       THEN [stopped EXCEPT !.pollingTimer = timer, !.active = @ \cup {timer}]
       ELSE stopped

\* the watch callback for a new value of currentDialogue, up to its await:
\* a different dialogue starts its initial load, null stops the polling
watchCurrentDialogue(c, newVal) ==
    IF newVal # 0
    THEN [c EXCEPT !.loads = Append(@, newVal)]
    ELSE stopPolling(c)

\* setup and mount: the store has dialogue d selected or none; the immediate
\* watch runs, then onMounted
PollMount(d) ==
    /\ calc.op = "polling" /\ calc.mounted = "setup"
    /\ calc' = LET set == [calc EXCEPT !.currentDialogue = d, !.mounted = "mounted"]
                   watched == watchCurrentDialogue(set, d)
               IN IF d # 0 THEN startPolling(watched) ELSE watched
    /\ UNCHANGED <<ledgerVars, sdkVars>>

\* the store sets currentDialogue (selectDialogue, logout); the watch of a
\* mounted component runs, the watch of an unmounted one is stopped
PollSelect(d) ==
    /\ calc.op = "polling" /\ calc.mounted # "setup"
    /\ d # calc.currentDialogue
    /\ d # 0 /\ calc.mounted = "mounted" => Len(calc.loads) < MaxLoads
    /\ calc' = LET set == [calc EXCEPT !.currentDialogue = d]
               IN IF calc.mounted = "mounted" THEN watchCurrentDialogue(set, d) ELSE set
    /\ UNCHANGED <<ledgerVars, sdkVars>>

\* the i-th initial load in flight ends: loadDialogueMessages has set
\* currentDialogue to the dialogue it loaded (ok) or has thrown; the watch
\* callback goes on after its await with startPolling()
PollLoadDone(i, ok) ==
    /\ calc.op = "polling" /\ i <= Len(calc.loads)
    /\ calc' = LET d == calc.loads[i]
                   done == [calc EXCEPT !.loads = SubSeq(@, 1, i - 1)
                                                    \o SubSeq(@, i + 1, Len(@))]
                   set == IF ok THEN [done EXCEPT !.currentDialogue = d] ELSE done
                   watched == IF ok /\ calc.mounted = "mounted" /\ calc.currentDialogue # d
                              THEN watchCurrentDialogue(set, d) ELSE set
               IN startPolling(watched)
    /\ UNCHANGED <<ledgerVars, sdkVars>>

\* handleVisibilityChange with document.hidden
PollHide ==
    /\ calc.op = "polling" /\ calc.mounted = "mounted" /\ ~calc.hidden
    /\ calc' = stopPolling([calc EXCEPT !.hidden = TRUE])
    /\ UNCHANGED <<ledgerVars, sdkVars>>

\* handleVisibilityChange when the page is visible again
PollShow ==
    /\ calc.op = "polling" /\ calc.mounted = "mounted" /\ calc.hidden
    /\ calc' = LET shown == [calc EXCEPT !.hidden = FALSE]
               IN IF calc.currentDialogue # 0 THEN startPolling(shown) ELSE shown
    /\ UNCHANGED <<ledgerVars, sdkVars>>

\* onUnmounted: stopPolling(); the listener is removed, the watchers stop
PollUnmount ==
    /\ calc.op = "polling" /\ calc.mounted = "mounted"
    /\ calc' = stopPolling([calc EXCEPT !.mounted = "unmounted"])
    /\ UNCHANGED <<ledgerVars, sdkVars>>

NextPolling ==
    \/ \E d \in 0..NumViewDialogues : PollMount(d)
    \/ \E d \in 0..NumViewDialogues : PollSelect(d)
    \/ \E i \in 1..MaxLoads, ok \in BOOLEAN : PollLoadDone(i, ok)
    \/ PollHide
    \/ PollShow
    \/ PollUnmount

SpecPolling == InitPolling /\ [][NextPolling]_vars

(***************************************************************************)
(* Conversation addressing as a pure function.  Here an address is a       *)
(* sequence of AddrLen hex digits (nibbles), most significant first.       *)
(***************************************************************************)
Nibbles == NibbleLo..NibbleHi
HexAddresses == [1..AddrLen -> Nibbles]
CaseMasks == [1..AddrLen -> BOOLEAN]

RECURSIVE AddressValue(_)
\* the address as an unsigned integer
AddressValue(a) ==
    IF Len(a) = 0 THEN 0
    ELSE 16 * AddressValue(SubSeq(a, 1, Len(a) - 1)) + a[Len(a)]

\* ethers getAddress: the EIP-55 checksum spelling, as UTF-16 code units.
\* A letter digit is written in upper case where the hash of the address
\* says so (upper), in lower case elsewhere.
getAddress(a, upper) ==
    [i \in 1..Len(a) |->
        IF a[i] < 10 THEN 48 + a[i]
        ELSE IF upper[i] THEN 55 + a[i] ELSE 87 + a[i]]

RECURSIVE StringLess(_, _)
\* the JavaScript < on two strings: code units, left to right
StringLess(s, t) ==
    IF Len(t) = 0 THEN FALSE
    ELSE IF Len(s) = 0 THEN TRUE
    ELSE IF Head(s) # Head(t) THEN Head(s) < Head(t)
    ELSE StringLess(Tail(s), Tail(t))

Addr1First_Always(addr1, addr2) == TRUE

\* KeyManager.getDialogueAddress, line 47: addr1 < addr2 on the checksum strings
Addr1First(addr1, addr2) == StringLess(addr1, addr2)

\* KeyManager.getDialogueAddress: the hash of the packed pair is the pair of
\* the two address values, as in getMsgID
getDialogueAddress(address1, upper1, address2, upper2) ==
    LET addr1 == getAddress(address1, upper1)
        addr2 == getAddress(address2, upper2)
    IN IF Addr1First(addr1, addr2)
       THEN <<AddressValue(address1), AddressValue(address2)>>
       ELSE <<AddressValue(address2), AddressValue(address1)>>

InitAddr ==
    /\ InitLedger
    /\ InitSdk
    /\ \E a1 \in HexAddresses, a2 \in HexAddresses, u1 \in CaseMasks, u2 \in CaseMasks :
          /\ a1 = a2 => u1 = u2
          /\ calc = [op |-> "addr", pc |-> "in", address1 |-> a1, upper1 |-> u1,
                     address2 |-> a2, upper2 |-> u2,
                     sdk |-> <<>>, sdkSwapped |-> <<>>,
                     ledger |-> <<>>, ledgerSwapped |-> <<>>]

ComputeIds ==
    /\ calc.op = "addr" /\ calc.pc = "in"
    /\ calc' = [calc EXCEPT
          !.pc = "out",
          !.sdk = getDialogueAddress(calc.address1, calc.upper1, calc.address2, calc.upper2),
          !.sdkSwapped = getDialogueAddress(calc.address2, calc.upper2, calc.address1, calc.upper1),
          !.ledger = getMsgID(AddressValue(calc.address1), AddressValue(calc.address2)),
          !.ledgerSwapped = getMsgID(AddressValue(calc.address2), AddressValue(calc.address1))]
    /\ UNCHANGED <<ledgerVars, sdkVars>>

NextAddr == ComputeIds

SpecAddr == InitAddr /\ [][NextAddr]_vars

(***************************************************************************)
(* The password wallet as a pure function of the two strings it is given.  *)
(* The account address comes in any spelling of its hex digits; a password *)
(* is a string of one to MaxPasswordLen code units.                        *)
(***************************************************************************)
PasswordUnits == {80, 112}

PasswordStrings ==
    UNION {[1..n -> PasswordUnits] : n \in 1..MaxPasswordLen}

\* the string left as it is
toLowerCase_Identity(s) == s

\* String.prototype.toLowerCase on code units: A..Z become a..z
toLowerCase(s) ==
    [i \in 1..Len(s) |-> IF s[i] >= 65 /\ s[i] <= 90 THEN s[i] + 32 ELSE s[i]]

\* keccak256(toUtf8Bytes(combined)): one digest for one string
keccak256(combined) == [digest |-> combined]

\* AuthModule.generatePasswordWallet on strings: the private key is the
\* digest of the lower-cased address followed by the password, the address
\* is the one of that private key
generatePasswordWalletString(userAddress, password) ==
    LET combined == toLowerCase(userAddress) \o password
        privateKey == keccak256(combined)
    IN [privateKey |-> privateKey, address |-> [wallet |-> privateKey]]

NoWallet == [privateKey |-> keccak256(<<>>), address |-> [wallet |-> keccak256(<<>>)]]

InitWallet ==
    /\ InitLedger
    /\ InitSdk
    /\ \E a \in HexAddresses, u1 \in CaseMasks, u2 \in CaseMasks, p \in PasswordStrings :
          calc = [op |-> "wallet", pc |-> "in", address |-> a,
                  upper1 |-> u1, upper2 |-> u2, password |-> p,
                  first |-> NoWallet, second |-> NoWallet]

\* the call with the first spelling of the address
DeriveFirst ==
    /\ calc.op = "wallet" /\ calc.pc = "in"
    /\ calc' = [calc EXCEPT
          !.pc = "one",
          !.first = generatePasswordWalletString(getAddress(calc.address, calc.upper1),
                                                 calc.password)]
    /\ UNCHANGED <<ledgerVars, sdkVars>>

\* the call with the second spelling of the address
DeriveSecond ==
    /\ calc.op = "wallet" /\ calc.pc = "one"
    /\ calc' = [calc EXCEPT
          !.pc = "out",
          !.second = generatePasswordWalletString(getAddress(calc.address, calc.upper2),
                                                  calc.password)]
    /\ UNCHANGED <<ledgerVars, sdkVars>>

NextWallet == DeriveFirst \/ DeriveSecond

SpecWallet == InitWallet /\ [][NextWallet]_vars

(***************************************************************************)
(* The symmetric codec as a pure function: encrypt, then decrypt.          *)
(***************************************************************************)
InitCodec ==
    /\ InitLedger
    /\ InitSdk
    /\ \E t \in CodecTexts, k \in CodecKeys, k2 \in CodecKeys, iv \in CodecIVs :
          calc = [op |-> "codec", pc |-> "in", text |-> t, key |-> k, iv |-> iv,
                  decryptKey |-> k2, blob |-> encryptMessage("", k, iv),
                  result |-> [threw |-> FALSE, text |-> ""]]

Encrypt ==
    /\ calc.op = "codec" /\ calc.pc = "in"
    /\ calc' = [calc EXCEPT !.pc = "encrypted",
                            !.blob = encryptMessage(calc.text, calc.key, calc.iv)]
    /\ UNCHANGED <<ledgerVars, sdkVars>>

\* the caller passes the blob with or without its 0x prefix
Decrypt ==
    /\ calc.op = "codec" /\ calc.pc = "encrypted"
    /\ \E wrong \in WrongKeyOutcomes, stripped \in BOOLEAN :
          calc' = [calc EXCEPT
              !.pc = "decrypted",
              !.result = decryptMessage(IF stripped THEN StripPrefix(calc.blob) ELSE calc.blob,
                                        calc.decryptKey, wrong)]
    /\ UNCHANGED <<ledgerVars, sdkVars>>

NextCodec == Encrypt \/ Decrypt

SpecCodec == InitCodec /\ [][NextCodec]_vars

(***************************************************************************)
(* Batch decryption as a pure function: EncryptionModule.decryptMessages   *)
(* and the loop of getMessages over a list of stored records.              *)
(***************************************************************************)
BatchKeys == 1..NumBatchKeys

\* the stored records a batch is drawn from; the i-th record has time i
BatchRecord(from, key, text, i) ==
    [from |-> from, to |-> 3 - from,
     msgContent |-> encryptMessage(text, key, 1), time |-> i]

InitBatch ==
    /\ InitLedger
    /\ InitSdk
    /\ \E n \in 0..MaxBatch, key \in BatchKeys :
          \E from \in [1..n -> 1..2], k \in [1..n -> BatchKeys], t \in [1..n -> Texts] :
             calc = [op |-> "batch", pc |-> "in", key |-> key,
                     messages |-> [i \in 1..n |-> BatchRecord(from[i], k[i], t[i], i)],
                     single |-> <<>>, result |-> <<>>]

\* decryptMessages(messages, key); single holds what decryptMessage gives for
\* each record on its own
DecryptBatch ==
    /\ calc.op = "batch" /\ calc.pc = "in"
    /\ \E wrongs \in [1..Len(calc.messages) -> WrongKeyOutcomes] :
          calc' = [calc EXCEPT
             !.pc = "out",
             !.single = [i \in 1..Len(calc.messages) |->
                           decryptMessage(calc.messages[i].msgContent, calc.key, wrongs[i])],
             !.result = DecryptAll(calc.messages, calc.key, wrongs)]
    /\ UNCHANGED <<ledgerVars, sdkVars>>

NextBatch == DecryptBatch

SpecBatch == InitBatch /\ [][NextBatch]_vars

\* C8: the conversation identifier is symmetric, for the ledger's getMsgID
\* and for KeyManager.getDialogueAddress.
C8_IdSymmetric ==
    (calc.op = "addr" /\ calc.pc = "out") =>
        (calc.sdk = calc.sdkSwapped /\ calc.ledger = calc.ledgerSwapped)

\* two different addresses whose checksum spellings order against their values
C8_Witness ==
    /\ calc.op = "addr" /\ calc.pc = "out"
    /\ calc.address1 # calc.address2
    /\ AddressValue(calc.address1) < AddressValue(calc.address2)
    /\ StringLess(getAddress(calc.address2, calc.upper2),
                  getAddress(calc.address1, calc.upper1))
    /\ calc.sdk = calc.sdkSwapped /\ calc.ledger = calc.ledgerSwapped

\* C9: KeyManager.getDialogueAddress returns the identifier the ledger's
\* getMsgID returns, for every pair of addresses.
C9_SdkIdMatchesLedger ==
    (calc.op = "addr" /\ calc.pc = "out") => calc.sdk = calc.ledger

\* C10: decryptMessage(encryptMessage(text, key), key) returns text, for every
\* text, the empty one included.
C10_RoundTrip ==
    (calc.op = "codec" /\ calc.pc = "decrypted" /\ calc.decryptKey = calc.key) =>
        (~calc.result.threw /\ calc.result.text = calc.text)


\* C2: the ledger stores exactly one key per conversation, the one carried by
\* the first accepted sendMsg of the pair; later handles are ignored and the
\* stored key never changes.
C2_FirstKeyCanonical ==
    /\ [](\A d \in DialogueIds :
             IF Len(carried[d]) = 0
             THEN dialoguePrivateKeys[d] = ZeroHandle
             ELSE dialoguePrivateKeys[d] = carried[d][1])
    /\ [][\A d \in DialogueIds :
             dialoguePrivateKeys[d] # ZeroHandle
                => dialoguePrivateKeys'[d] = dialoguePrivateKeys[d]]_vars

\* both participants have sent, and a later transaction carried another key
C2_Witness ==
    \E d \in DialogueIds :
        /\ Len(carried[d]) >= 2
        /\ carried[d][2] # carried[d][1]
        /\ dialogue[d][1].from # dialogue[d][2].from
        /\ dialoguePrivateKeys[d] = carried[d][1]

C6_RegisteredParticipantAllowed ==
    \A d \in DialogueIds : \A u \in Participants(d) :
        (dialoguePrivateKeys[d] # ZeroHandle /\ userList[u] # ZeroAddress)
            => userList[u] \in allowed[d]

\* a participant registered after the key of its conversation was stored
C6_Witness ==
    \E d \in DialogueIds : \E u \in Participants(d) :
        /\ dialoguePrivateKeys[d] # ZeroHandle
        /\ lastTx.fn = "register" /\ lastTx.sender = u /\ lastTx.status = "ok"
        /\ userList[u] \in allowed[d]

C1_CleanFirstSendReadable ==
    \A o \in Slots :
        LET op == ops[o]
            d == op.dialogueAddress
        IN (/\ op.kind = "get" /\ op.pc = "done"
            /\ firstSend[d] = "clean"
            /\ Len(op.msgList) >= 1
            /\ op.user # op.msgList[1].from
            /\ generatePasswordWallet(op.user, op.password) = userList[op.user])
           => /\ op.status = "ok"
              /\ op.dialogueKey = carried[d][1]
              /\ Len(op.messages) = Len(op.msgList)
              /\ op.messages[1].content = op.msgList[1].msgContent.body[2].m

\* C3: a sendMessage that returned an ordinary success encrypted its message
\* under the key the ledger stores for the conversation (a mismatch seen on
\* the re-read after submission would have been surfaced instead).
C3_SuccessMeansCanonicalKey ==
    \A o \in Slots :
        (ops[o].kind = "send" /\ ops[o].pc = "done" /\ ops[o].status = "ok")
            => ops[o].dialogueKey = dialoguePrivateKeys[ops[o].dialogueAddress]

\* C4: a message encrypted under a key other than the stored one (the losing
\* sender's message of a first-send race) is never returned by getMessages
\* as its correctly decrypted text, whoever reads the conversation, the
\* losing sender included; the claim has it returned with the
\* decryption-failure sentinel instead.
C4_DiscardedKeyNeverReadable ==
    \A o \in Slots :
        LET op == ops[o]
        IN (op.kind = "get" /\ op.pc = "done" /\ op.status = "ok")
           => \A i \in 1..Len(op.messages) :
                 op.msgList[i].msgContent.body[2].k
                       # dialoguePrivateKeys[op.dialogueAddress]
                    => op.messages[i].content # op.msgList[i].msgContent.body[2].m

C12_PasswordCheckedBeforeRecovery ==
    \A o \in Slots :
        LET op == ops[o]
        IN (/\ op.kind \in {"send", "get"}
            /\ userList[op.user] # ZeroAddress
            /\ generatePasswordWallet(op.user, op.password) # userList[op.user])
           => /\ op.pc # "decryptKey"
              /\ (op.pc = "done" /\ op.status \notin {"ok", "NOT_REGISTERED"})
                    => op.status = "INVALID_PASSWORD"

\* C13: a key cached with TTL CacheTTL is absent from the key cache once
\* CacheTTL has elapsed since it was cached (due timers fire before the
\* clock moves on), and a getMessages that then finds no entry for a
\* conversation with a stored key recovers the key from the ledger again:
\* it verifies the password, decrypts the stored handle and caches the key.
C13_ExpiredKeyRecoveredAgain ==
    /\ [](\A u \in SdkUsers, d \in DialogueIds :
             keyCache[u][d] # 0
                => /\ cachedAt[u][d] # NoTime
                   /\ now <= cachedAt[u][d] + CacheTTL)
    /\ [][\A o \in Slots :
             LET op == ops'[o]
             IN /\ (/\ ops[o].kind = "idle" /\ op.kind = "get"
                    /\ keyCache[op.user][op.dialogueAddress] = 0
                    /\ dialoguePrivateKeys[op.dialogueAddress] # ZeroHandle)
                   => op.pc = "verifyPassword"
                /\ (/\ ops[o].kind = "get" /\ ops[o].pc = "decryptKey"
                    /\ op.status = "ok")
                   => /\ keyCache'[op.user][op.dialogueAddress]
                            = dialoguePrivateKeys[op.dialogueAddress]
                      /\ cachedAt'[op.user][op.dialogueAddress] = now]_vars

\* the key the account cached when it sent the first message has expired,
\* and a getMessages is recovering it from the ledger
C13_Witness ==
    \E o \in Slots :
        LET op == ops[o]
            d == op.dialogueAddress
        IN /\ op.kind = "get" /\ op.pc = "decryptKey"
           /\ Len(dialogue[d]) > 0 /\ dialogue[d][1].from = op.user
           /\ keyCache[op.user][d] = 0
           /\ timers[op.user] = {}
           /\ now > CacheTTL

\* C14: at every moment between a logout and the next login call on the
\* same SDK instance, the key cache holds no entry and no session password
\* is cached, also when a call that started before the logout completes
\* after it.
C14_NothingCachedAfterLogout ==
    \A u \in SdkUsers :
        loggedOut[u] => /\ cachedPassword[u] = 0
                        /\ \A d \in DialogueIds : keyCache[u][d] = 0

C16_UnregisteredSenderRejected ==
    /\ [](\A o \in Slots :
             (ops[o].kind = "send" /\ ops[o].status = "NOT_REGISTERED")
                => /\ ops[o].pc = "done"
                   /\ ops[o].dialogueKey = ZeroHandle
                   /\ ops[o].encryptedContent = NoContent)
    /\ [][\A o \in Slots :
             (/\ ops[o].kind = "idle" /\ ops'[o].kind = "send"
              /\ userList[ops'[o].user] = ZeroAddress)
                => /\ ops'[o].pc = "done"
                   /\ ops'[o].status = "NOT_REGISTERED"
                   /\ UNCHANGED <<ledgerVars, keyCache, nextKey, timers>>]_vars

\* an unregistered account's sendMessage has failed; nothing was cached or
\* sent
C16_Witness ==
    \E o \in Slots :
        LET op == ops[o]
        IN /\ op.kind = "send" /\ op.pc = "done" /\ op.status = "NOT_REGISTERED"
           /\ userList[op.user] = ZeroAddress
           /\ keyCache[op.user][getMsgID(op.user, op.to)] = 0
           /\ Len(dialogue[getMsgID(op.user, op.to)]) = 0

\* C17: the ledger's sendMsg accepts a message whether or not the sender or
\* the recipient is registered: the transaction succeeds, the record is
\* appended to their conversation, and a participant that is not registered
\* at that moment receives no access grant.
C17_SendNeedsNoRegistration ==
    [][(lastTx'.fn = "sendMsg" /\ lastTx'.block = blockNumber + 1)
          => /\ lastTx'.status = "ok"
             /\ \E d \in DialogueIds :
                   LET rec == dialogue'[d][Len(dialogue'[d])]
                   IN /\ Len(dialogue'[d]) = Len(dialogue[d]) + 1
                      /\ rec.from = lastTx'.sender
                      /\ d = getMsgID(rec.from, rec.to)
                      /\ ZeroAddress \notin allowed'[d]
                      /\ \A u \in {rec.from, rec.to} :
                            userList[u] = ZeroAddress
                               => \A p \in Passwords :
                                     generatePasswordWallet(u, p) \notin allowed'[d]]_vars

\* a first message between two unregistered accounts was accepted, and
\* only the ledger program can read its key
C17_Witness ==
    \E d \in DialogueIds :
        /\ Len(dialogue[d]) = 1
        /\ userList[dialogue[d][1].from] = ZeroAddress
        /\ userList[dialogue[d][1].to] = ZeroAddress
        /\ dialogue[d][1].from # dialogue[d][1].to
        /\ lastTx.fn = "sendMsg" /\ lastTx.status = "ok"
        /\ allowed[d] = {ThisContract}

\* C18: the ledger's message list of every conversation is append-only:
\* each sendMsg appends exactly one record at the end of one list, and no
\* step (a registration, a sendMsg, any step of an SDK call) removes,
\* reorders or modifies a record that is already stored.
C18_AppendOnly ==
    [][/\ \A d \in DialogueIds :
             \/ dialogue'[d] = dialogue[d]
             \/ /\ Len(dialogue'[d]) = Len(dialogue[d]) + 1
                /\ SubSeq(dialogue'[d], 1, Len(dialogue[d])) = dialogue[d]
       /\ (lastTx'.fn = "sendMsg" /\ lastTx'.block = blockNumber + 1)
             => Cardinality({d \in DialogueIds : dialogue'[d] # dialogue[d]}) = 1
       /\ (dialogue' # dialogue)
             => (lastTx'.fn = "sendMsg" /\ lastTx'.block = blockNumber + 1)]_vars

\* a sendMsg has just appended a second, different record to a conversation
C18_Witness ==
    \E d \in DialogueIds :
        /\ Len(dialogue[d]) = 2
        /\ dialogue[d][1] # dialogue[d][2]
        /\ dialogue[d][2].time = blockNumber
        /\ lastTx.fn = "sendMsg"

C20_WalletIgnoresAddressCase ==
    /\ [](calc.op = "wallet" /\ calc.pc = "out"
            => /\ calc.first.privateKey = calc.second.privateKey
               /\ calc.first.address = calc.second.address
               /\ calc.first # NoWallet)
    /\ [][calc.op = "wallet" => UNCHANGED <<ledgerVars, sdkVars>>]_vars

\* both calls were made, with two spellings of an address that differ in
\* the case of a letter digit
C20_Witness ==
    /\ calc.op = "wallet" /\ calc.pc = "out"
    /\ getAddress(calc.address, calc.upper1) # getAddress(calc.address, calc.upper2)
    /\ calc.first = calc.second

\* the result of the verifyPassword that slot o awaits, as it shows in the
\* step that takes the call past the await
ReturnedTrue(o) ==
    IF ops[o].kind = "get" THEN ops'[o].pc = "decryptKey"
    ELSE ops'[o].pc = "done" /\ ops'[o].status = "ok" /\ ops'[o].success

ReturnedFalse(o) ==
    IF ops[o].kind = "get"
    THEN ops'[o].pc = "done" /\ ops'[o].status = "INVALID_PASSWORD"
    ELSE ops'[o].pc = "done" /\ ops'[o].status = "ok" /\ ~ops'[o].success

ThrewNotRegistered(o) ==
    /\ ops'[o].pc = "done"
    /\ ops'[o].status = IF ops[o].kind = "get" THEN "NOT_REGISTERED" ELSE "Login failed"

VerifyReturns(o) ==
    ops[o].pc = "verifyPassword" /\ ops'[o].pc # "verifyPassword"

ErrorCode ==
    {"NOT_REGISTERED", "INVALID_PASSWORD", "DECRYPTION_FAILED", "DIALOGUE_NOT_FOUND",
     "TRANSACTION_FAILED", "INSUFFICIENT_GAS", "SDK_NOT_INITIALIZED"}

\* C22: every failure surfaced by sendMessage, getMessages, getDialogueWith
\* and register carries one of the error codes of the taxonomy, so that a
\* caller can branch on the code alone.
C22_FailuresCarryCode ==
    \A o \in Slots :
        (/\ ops[o].kind \in {"send", "get", "register"}
         /\ ops[o].pc = "done"
         /\ ops[o].status # "ok")
           => ops[o].status \in ErrorCode

\* the ways a ledger or network failure is surfaced: the error of the
\* failed step, wrapped by the catch block of the operation
SurfacedFailure == {"Login failed", "Send message failed", "Failed to get messages"}

\* C23: a ledger or network failure in a step of login, sendMessage or
\* getMessages makes the operation fail with that failure: the operation
\* ends at the failed step, is never reported as another outcome (such as
\* not registered) and goes on to no other action.
C23_FailureSurfacedAsIs ==
    \A o \in Slots :
        ops[o].failure = "network"
           => /\ ops[o].pc = "done"
              /\ ops[o].status \in SurfacedFailure

\* slot o starts a sendMessage or a getMessages / getDialogueWith
FacadeCallStarts(o) ==
    ops[o].kind = "idle" /\ ops'[o].kind \in {"send", "get"}

SendLeaves(o, pc) ==
    ops[o].kind = "send" /\ ops[o].pc = pc /\ ops'[o].pc # pc

C26_OneMintPerPair ==
    [][\A o \in Slots :
          (SendLeaves(o, "readKey") /\ nextKey' # nextKey)
             => LET d == getMsgID(ops[o].user, ops[o].to)
                IN \A v \in SdkUsers : keyCache[v][d] = 0]_vars

\* C27: whenever the ledger holds a key for a conversation and the KeyCache
\* of an SDK instance holds an entry for it, the cached key is the ledger's
\* key, in every execution in which no two first sends of the pair overlap,
\* failed or reverted transactions included.
C27_CacheAgreesWithLedger ==
    \A u \in SdkUsers, d \in DialogueIds :
        (/\ dialoguePrivateKeys[d] # ZeroHandle
         /\ keyCache[u][d] # 0
         /\ firstSend[d] # "overlap")
           => keyCache[u][d] = dialoguePrivateKeys[d]

\* C28: once a KeyCache entry of a conversation is written its key does not
\* change until the entry is removed, under any interleaving of concurrent
\* sendMessage and getMessages calls of the same SDK instance.
C28_CacheEntryImmutable ==
    [][\A u \in SdkUsers, d \in DialogueIds :
          keyCache[u][d] # 0 => keyCache'[u][d] \in {keyCache[u][d], 0}]_vars

\* C29: a KeyCache entry is removed only by the expiry of its own TTL or by
\* clearCache: an entry written at time t stays retrievable until t + TTL
\* unless clearCache runs in between, for any sequence of cache, clear and
\* re-cache operations on the same conversation.  (clearCache leaves the
\* timers as they are; a timer that fires takes itself off.)
C29_RemovedOnlyByOwnExpiry ==
    [][\A u \in SdkUsers, d \in DialogueIds :
          (keyCache[u][d] # 0 /\ keyCache'[u][d] = 0)
             => \/ timers' = timers
                \/ now >= cachedAt[u][d] + CacheTTL]_vars

\* slot o runs a sendMessage or getMessages that ends in failure in this step
ObtainFails(o) ==
    /\ ops[o].kind \in {"send", "get"}
    /\ ops[o].pc # "done" /\ ops'[o].pc = "done"
    /\ ops'[o].status # "ok"

\* slot o completes the recovery of the stored key in this step: its
\* password wallet is allowed on the handle and the call goes on
Recovers(o) ==
    /\ ops[o].kind \in {"send", "get"} /\ ops[o].pc = "decryptKey"
    /\ generatePasswordWallet(ops[o].user, ops[o].password)
          \in allowed[ops[o].dialogueAddress]
    /\ IF ops[o].kind = "send" THEN ops'[o].pc = "pending"
       ELSE ops'[o].pc = "done" /\ ops'[o].status = "ok"

\* slot o generates the key of a conversation without a stored key
Generates(o) ==
    /\ SendLeaves(o, "readKey") /\ ops'[o].pc = "pending"
    /\ dialoguePrivateKeys[ops[o].dialogueAddress] = ZeroHandle

\* C30: when obtaining a key does not complete successfully (the password
\* is invalid, the recovery of the key fails) the KeyCache is left as it
\* was: the step in which a call fails writes nothing, and an entry is
\* written only in the step that completes a successful obtain, with the
\* key that was obtained.
C30_CacheWrittenOnlyOnSuccess ==
    [][/\ \A o \in Slots : ObtainFails(o) => keyCache' = keyCache
       /\ \A u \in SdkUsers, d \in DialogueIds :
             keyCache'[u][d] # keyCache[u][d]
                => \E o \in Slots :
                      /\ ops[o].user = u /\ ops[o].dialogueAddress = d
                      /\ ops'[o].dialogueKey = keyCache'[u][d]
                      /\ \/ Generates(o) /\ keyCache'[u][d] = nextKey
                         \/ Recovers(o) /\ keyCache'[u][d] = dialoguePrivateKeys[d]]_vars

\* a sendMessage with a wrong password has failed to recover the stored
\* key, and the account's KeyCache has no entry for the conversation
C30_Witness ==
    \E o \in Slots :
        /\ ops[o].kind = "send" /\ ops[o].pc = "done"
        /\ ops[o].status = "Send message failed"
        /\ dialoguePrivateKeys[ops[o].dialogueAddress] # ZeroHandle
        /\ keyCache[ops[o].user][ops[o].dialogueAddress] = 0

\* slot o runs a sendMessage that returns its result in this step
\* C31: sendMessage returns successfully only after its transaction is
\* confirmed, and then exactly one new record with from = signer, to =
\* recipient and the ciphertext of the given message has been appended to
\* the conversation of (signer, recipient), whose identifier is the
\* dialogueAddress it returns.
C31_SendReturnsAfterRecord ==
    [][\A o \in Slots :
          (/\ ops[o].kind = "send" /\ ops[o].pc # "done"
           /\ ops'[o].pc = "done" /\ ops'[o].status = "ok")
             => LET d == ops'[o].dialogueAddress
                    rec == dialogue'[d][Len(dialogue'[d])]
                IN /\ lastTx'.fn = "sendMsg" /\ lastTx'.status = "ok"
                   /\ lastTx'.block = blockNumber + 1
                   /\ lastTx'.sender = ops[o].user
                   /\ d = getMsgID(ops[o].user, ops[o].to)
                   /\ dialogue'[d] = Append(dialogue[d], rec)
                   /\ \A e \in DialogueIds \ {d} : dialogue'[e] = dialogue[e]
                   /\ rec.from = ops[o].user /\ rec.to = ops[o].to
                   /\ rec.msgContent = ops[o].encryptedContent
                   /\ rec.msgContent.body[2].m = ops[o].message
                   /\ rec.msgContent.body[2].k = ops[o].dialogueKey]_vars

\* one sendMessage of an account has failed with its transaction and left
\* no record, and a later one has returned with its record on the ledger
C31_Witness ==
    \E o1 \in Slots, o2 \in Slots :
        /\ ops[o1].kind = "send" /\ ops[o1].pc = "done"
        /\ ops[o1].status = "Send message failed"
        /\ ops[o2].kind = "send" /\ ops[o2].pc = "done" /\ ops[o2].status = "ok"
        /\ ops[o1].user = ops[o2].user
        /\ Len(dialogue[ops[o2].dialogueAddress]) = 1
        /\ dialogue[ops[o2].dialogueAddress][1].from = ops[o2].user

\* C32: each key-recovery call builds a new authorization object: a fresh
\* keypair, start time = the time of the call, a validity of 10 days, scoped
\* to exactly the SDK's contract address and signed by the password identity,
\* never by the wallet; no authorization object is used again by a later call.
C32_FreshAuthorization ==
    /\ [](calc.op = "auth"
            => /\ \A i \in 1..Len(calc.requests) :
                     LET r == calc.requests[i]
                     IN /\ r.durationDays = 10
                        /\ r.contractAddresses = <<ThisContract>>
                        /\ r.handleContract = ThisContract
                        /\ r.signer \in PasswordAddresses
                        /\ r.signer \notin Users
                        /\ r.startTimeStamp <= calc.clock
               /\ \A i \in 1..Len(calc.requests), j \in 1..Len(calc.requests) :
                     i # j => /\ calc.requests[i] # calc.requests[j]
                              /\ calc.requests[i].keypair # calc.requests[j].keypair)
    /\ [][(calc.op = "auth" /\ Len(calc'.requests) > Len(calc.requests))
             => /\ Len(calc'.requests) = Len(calc.requests) + 1
                /\ SubSeq(calc'.requests, 1, Len(calc.requests)) = calc.requests
                /\ calc'.requests[Len(calc'.requests)].startTimeStamp = calc.clock]_vars

\* two recoveries of the same handle with the same password, made at
\* different times, have built two different authorization objects
C32_Witness ==
    /\ calc.op = "auth" /\ Len(calc.requests) >= 2
    /\ calc.requests[1].handle = calc.requests[2].handle
    /\ calc.requests[1].signer = calc.requests[2].signer
    /\ calc.requests[1].startTimeStamp < calc.requests[2].startTimeStamp

\* C33: for every account u, userMsg[u] (what getMsgList walks) lists each
\* conversation in which u has sent or received a message exactly once and
\* lists no other conversation, after any sequence of sendMsg calls, a
\* message sent to oneself included.
C33_IndexListsEachOnce ==
    \A u \in Users, d \in DialogueIds :
        LET TimesListed == Cardinality({i \in 1..Len(userMsg[u]) : userMsg[u][i] = d})
            TookPart == \E i \in 1..Len(dialogue[d]) :
                           dialogue[d][i].from = u \/ dialogue[d][i].to = u
        IN TimesListed = (IF TookPart THEN 1 ELSE 0)

\* C34: getMessages returns decrypted contents only when the password it was
\* given derives the password address registered for the signer, also when
\* the conversation key is already in the KeyCache.
C34_ContentsOnlyWithPassword ==
    [][\A o \in Slots :
          (/\ ops[o].pc # "done"
           /\ ops'[o].kind = "get" /\ ops'[o].pc = "done" /\ ops'[o].status = "ok"
           /\ \E i \in 1..Len(ops'[o].messages) :
                 ops'[o].messages[i].content # Sentinel)
             => generatePasswordWallet(ops'[o].user, ops'[o].password)
                   = userList[ops'[o].user]]_vars

\* C35: whenever isLoggedIn() is true, the cached session password derives
\* the password address registered on the ledger for the signer, after any
\* sequence and interleaving of login, logout and register calls.
C35_LoggedInMeansRegisteredPassword ==
    \A u \in SdkUsers :
        cachedPassword[u] # 0
           => generatePasswordWallet(u, cachedPassword[u]) = userList[u]

\* the instance is logged in with the password of a register call, and a
\* login that raced with that registration using another password has failed
C35_Witness ==
    \E o \in Slots :
        LET op == ops[o]
        IN /\ op.kind = "login" /\ op.pc = "done" /\ op.status = "Login failed"
           /\ cachedPassword[op.user] # 0
           /\ cachedPassword[op.user] # op.password
           /\ lastTx.fn = "register" /\ lastTx.status # "ok"

\* C36: on the ledger a conversation has a stored key (a handle other than
\* zero) if and only if it has at least one record, in every reachable state.
C36_KeyIffRecord ==
    \A d \in DialogueIds :
        (dialoguePrivateKeys[d] # ZeroHandle) <=> (Len(dialogue[d]) >= 1)

\* one conversation holds two records and a key, another holds neither
C36_Witness ==
    \E d \in DialogueIds, e \in DialogueIds :
        /\ Len(dialogue[d]) >= 2 /\ dialoguePrivateKeys[d] # ZeroHandle
        /\ Len(dialogue[e]) = 0 /\ dialoguePrivateKeys[e] = ZeroHandle

\* C37: getMessages on a conversation with no stored key on the ledger
\* returns the empty list, without verifying the password, without a key
\* recovery and without changing the KeyCache.
C37_EmptyWithoutKey ==
    [][\A o \in Slots :
          (/\ ops[o].kind = "idle" /\ ops'[o].kind = "get"
           /\ dialoguePrivateKeys[ops'[o].dialogueAddress] = ZeroHandle)
             => /\ ops'[o].pc = "done" /\ ops'[o].status = "ok"
                /\ ops'[o].messages = <<>>
                /\ keyCache' = keyCache]_vars

\* a getMessages with a password that is not the registered one has returned
\* the empty list for a conversation without a key
C37_Witness ==
    \E o \in Slots :
        LET op == ops[o]
        IN /\ op.kind = "get" /\ op.pc = "done" /\ op.status = "ok"
           /\ op.messages = <<>>
           /\ dialoguePrivateKeys[op.dialogueAddress] = ZeroHandle
           /\ userList[op.user] # ZeroAddress
           /\ verifyPassword(op.user, op.password) = "INVALID_PASSWORD"

\* C38: for every sendMessage call the callbacks follow one order:
\* onTransactionSubmitted fires before onTransactionConfirmed,
\* onTransactionConfirmed fires only for a call that then returns
\* successfully, and a call that fails fires onError exactly once and
\* rethrows, never firing onTransactionConfirmed.
C38_CallbackOrder ==
    LET Fired(name) == Cardinality({i \in 1..Len(calc.events) : calc.events[i] = name})
    IN
    calc.op = "callbacks"
       => /\ \A i \in 1..Len(calc.events) :
                calc.events[i] = "onTransactionConfirmed"
                   => \E j \in 1..(i - 1) : calc.events[j] = "onTransactionSubmitted"
          /\ Fired("onTransactionConfirmed") >= 1 => calc.pc \in {"confirmed", "returned"}
          /\ calc.pc = "thrown"
                => /\ Fired("onError") = 1
                   /\ Fired("onTransactionConfirmed") = 0
          /\ calc.pc = "returned" => Fired("onError") = 0

\* C39: in the chat view at most one message-polling timer is active at any
\* time, and after the component is unmounted no polling timer remains
\* active, also when the unmount or a dialogue change happens while the
\* initial message load is still in flight.
C39_PollingTimer ==
    calc.op = "polling"
       => /\ Cardinality(calc.active) <= 1
          /\ calc.mounted = "unmounted" => calc.active = {}
====
